---- MODULE Spec2Model ----
(***************************************************************************)
(* stdout2prom: lines read from stdin are matched against the regular      *)
(* expressions of the configured metrics; every match updates a Prometheus *)
(* collector, and the line is echoed to stdout or eaten.                   *)
(*                                                                         *)
(* The model follows the full variant of main() (value and label groups),  *)
(* src/unnamed/part_000 lines 59-421.  Strings that the program inspects   *)
(* character by character (input lines, submatches) are sequences of       *)
(* one-character strings; indices into Go slices are kept 0-based, as in   *)
(* the source, and turned into 1-based sequence positions by At.           *)
(***************************************************************************)
EXTENDS Integers, Sequences, FiniteSets

(***************************************************************************)
(* Bounds of the model.                                                    *)
(***************************************************************************)
MaxLines == 2          \* lines read from stdin before it closes
MaxSpecs == 2          \* metrics in the configuration file

(***************************************************************************)
(* Characters, strings.                                                    *)
(***************************************************************************)
Digits == {"1", "2"}
AnyChar == {"a", "1", "2"}

DigitVal(c) == IF c = "1" THEN 1 ELSE 2

Front(s) == SubSeq(s, 1, Len(s) - 1)

Range(s) == {s[k] : k \in DOMAIN s}

\* strconv.ParseFloat(s, 64) on the strings of the model: a non-empty run
\* of decimal digits is its decimal value, anything else is a syntax error.
RECURSIVE Decimal(_)
Decimal(s) == IF s = <<>> THEN 0
              ELSE 10 * Decimal(Front(s)) + DigitVal(s[Len(s)])

ParseFloat(s) ==
  IF s # <<>> /\ Range(s) \subseteq Digits
    THEN [value |-> Decimal(s), err |-> FALSE]
    ELSE [value |-> 0, err |-> TRUE]

(***************************************************************************)
(* Regular expressions.  A pattern source is a sequence of elements, each  *)
(* consuming one character of a class: a literal (grp = FALSE) or a        *)
(* capture group (grp = TRUE; name = "" for an unnamed group).  A source   *)
(* with valid = FALSE does not parse.                                      *)
(***************************************************************************)
Lit(c) == [grp |-> FALSE, name |-> "", class |-> {c}]
Grp(n, cls) == [grp |-> TRUE, name |-> n, class |-> cls]
Pattern(es) == [valid |-> TRUE, elems |-> es]
Unparseable == [valid |-> FALSE, elems |-> <<>>]

NumGroups(es) == Cardinality({k \in DOMAIN es : es[k].grp})

\* position in es of its j-th capture group
GroupPos(es, j) ==
  CHOOSE k \in DOMAIN es :
    es[k].grp /\ Cardinality({i \in 1..k : es[i].grp}) = j

\* regexp.SubexpNames: element 0 is "" (the whole match), then one name
\* per capture group in order, "" for an unnamed one.
SubexpNames(es) ==
  <<"">> \o [j \in 1..NumGroups(es) |-> es[GroupPos(es, j)].name]

MatchAt(es, line, s) ==
  /\ s + Len(es) - 1 <= Len(line)
  /\ \A k \in DOMAIN es : line[s + k - 1] \in es[k].class

MatchStarts(es, line) == {s \in 1..(Len(line) + 1) : MatchAt(es, line, s)}

Min(S) == CHOOSE x \in S : \A y \in S : x <= y

\* regexp.FindStringSubmatch: the leftmost match only; the whole match
\* followed by the text of each capture group, or nil (length 0).
FindStringSubmatch(es, line) ==
  IF MatchStarts(es, line) = {} THEN <<>>
  ELSE LET s == Min(MatchStarts(es, line))
       IN  <<SubSeq(line, s, s + Len(es) - 1)>> \o
           [j \in 1..NumGroups(es) |-> <<line[s + GroupPos(es, j) - 1]>>]

(***************************************************************************)
(* Extraction helpers of the program.                                      *)
(***************************************************************************)
\* element idx (0-based, as in Go) of a slice
At(s, idx) == s[idx + 1]

\* indexOf: index of the first element equal to word, -1 when there is none
indexOf(word, data) ==
  IF \E k \in DOMAIN data : data[k] = word
    THEN Min({k \in DOMAIN data : data[k] = word}) - 1
    ELSE -1

\* getValue with the parse error dropped: the zero value is handed back as
\* if it had been parsed
getValue_ErrDropped(valueName, groupNames, results) ==
  LET idx == indexOf(valueName, groupNames)
  IN  IF idx < 0 \/ idx >= Len(results)
        THEN [panic |-> TRUE, value |-> 0, err |-> FALSE]
        ELSE [panic |-> FALSE,
              value |-> ParseFloat(At(results, idx)).value,
              err   |-> FALSE]

\* getValue: results[idx] is read without testing idx, so an index outside
\* the slice is a run-time panic; otherwise the text is parsed as a float.
getValue(valueName, groupNames, results) ==
  LET idx == indexOf(valueName, groupNames)
  IN  IF idx < 0 \/ idx >= Len(results)
        THEN [panic |-> TRUE, value |-> 0, err |-> FALSE]
        ELSE LET f == ParseFloat(At(results, idx))
             IN  [panic |-> FALSE,
                  value |-> IF f.err THEN 0 ELSE f.value,
                  err   |-> f.err]

\* prometheus.Labels: a map from label name to label value; nil has no keys
NilLabels == [n \in {} |-> <<>>]

\* getLabels: nil and an error as soon as one label name is not a group name
getLabels(labelNames, groupNames, results) ==
  IF \E k \in DOMAIN labelNames : indexOf(labelNames[k], groupNames) = -1
    THEN [labels |-> NilLabels, err |-> TRUE]
    ELSE [labels |-> [n \in Range(labelNames) |->
                        At(results, indexOf(n, groupNames))],
          err |-> FALSE]

(***************************************************************************)
(* Collectors.  A plain collector holds val; a vector holds one value per  *)
(* label mapping in series.                                                *)
(***************************************************************************)
NoSeries == [l \in {} |-> 0]
NoCollector == [kind |-> "nil", labelNames |-> <<>>, val |-> 0, series |-> NoSeries]

NewCounter == [kind |-> "Counter", labelNames |-> <<>>, val |-> 0, series |-> NoSeries]
NewGauge == [kind |-> "Gauge", labelNames |-> <<>>, val |-> 0, series |-> NoSeries]
NewCounterVec(names) ==
  [kind |-> "CounterVec", labelNames |-> names, val |-> 0, series |-> NoSeries]
NewGaugeVec(names) ==
  [kind |-> "GaugeVec", labelNames |-> names, val |-> 0, series |-> NoSeries]

\* the collector shape built with its two branches exchanged
NewCollector_Swapped(metric) ==
  IF metric.Value # ""
    THEN IF Len(metric.Labels) > 0 THEN NewGauge ELSE NewGaugeVec(metric.Labels)
    ELSE IF Len(metric.Labels) > 0 THEN NewCounter ELSE NewCounterVec(metric.Labels)

\* the collector built for a metric from (Value # "", len(Labels) > 0)
NewCollector(metric) ==
  IF metric.Value # ""
    THEN IF Len(metric.Labels) > 0 THEN NewGaugeVec(metric.Labels) ELSE NewGauge
    ELSE IF Len(metric.Labels) > 0 THEN NewCounterVec(metric.Labels) ELSE NewCounter

\* value of a series, 0 for one that does not exist yet
SeriesVal(c, l) == IF l \in DOMAIN c.series THEN c.series[l] ELSE 0

SetSeries(c, l, v) ==
  [c EXCEPT !.series = [x \in (DOMAIN c.series) \cup {l} |->
                          IF x = l THEN v ELSE c.series[x]]]

\* Inc adding 2, and Set adding to the value instead of replacing it
Inc_Twice(c) == [c EXCEPT !.val = @ + 2]
Set_Adds(c, v) == [c EXCEPT !.val = @ + v]

\* Counter.Inc, Gauge.Set
Inc(c) == [c EXCEPT !.val = @ + 1]
Set(c, v) == [c EXCEPT !.val = v]

\* MetricVec.With(labels) panics unless labels has exactly the label names
\* the vector was built with.
WithPanics(c, l) == DOMAIN l # Range(c.labelNames)

\* CounterVec.With(labels).Inc(), GaugeVec.With(labels).Set(v)
IncWith(c, l) == SetSeries(c, l, SeriesVal(c, l) + 1)
SetWith(c, l, v) == SetSeries(c, l, v)

\* the type the update asserts metric.Collector to be, by the two booleans;
\* the assertion panics when the collector is of another type
AssertedKind(metric) ==
  IF metric.Value = ""
    THEN IF Len(metric.Labels) > 0 THEN "CounterVec" ELSE "Counter"
    ELSE IF Len(metric.Labels) > 0 THEN "GaugeVec" ELSE "Gauge"

\* the update of a matching metric's collector, by the metric's two booleans
UpdatePanics(metric, lbls) ==
  \/ metric.Collector.kind # AssertedKind(metric)
  \/ Len(metric.Labels) > 0 /\ WithPanics(metric.Collector, lbls)

Update(metric, lbls, val) ==
  IF metric.Value = ""
    THEN IF Len(metric.Labels) > 0
           THEN IncWith(metric.Collector, lbls)
           ELSE Inc(metric.Collector)
    ELSE IF Len(metric.Labels) > 0
           THEN SetWith(metric.Collector, lbls, val)
           ELSE Set(metric.Collector, val)

\* the pass-through policy: is the line printed?
Forwarded(eatAll, eatMatches, matchFound) ==
  IF eatAll THEN FALSE
  ELSE IF matchFound /\ eatMatches THEN FALSE
  ELSE TRUE

(***************************************************************************)
(* Configurations and inputs the model runs the program on.                *)
(***************************************************************************)
Metric(name, regex, val, lbls) ==
  [Name |-> name, Regex |-> regex, Value |-> val, Labels |-> lbls,
   Compiled |-> <<>>, GroupName |-> <<>>, Collector |-> NoCollector]

MetricCatalog ==
  { \* a                                    Counter
    Metric("c", Pattern(<<Lit("a")>>), "", <<>>),
    \* (?P<code>[12])                       CounterVec
    Metric("cv", Pattern(<<Grp("code", Digits)>>), "", <<"code">>),
    \* (a)(?P<v>.)                          Gauge
    Metric("g", Pattern(<<Grp("", {"a"}), Grp("v", AnyChar)>>), "v", <<>>),
    \* (?P<code>[12])(?P<v>.)               GaugeVec
    Metric("gv", Pattern(<<Grp("code", Digits), Grp("v", AnyChar)>>), "v", <<"code">>),
    \* 1          value: v                  no group is named v
    Metric("bv", Pattern(<<Lit("1")>>), "v", <<>>),
    \* 2          labels: [code]            no group is named code
    Metric("bl", Pattern(<<Lit("2")>>), "", <<"code">>),
    \* a pattern that does not compile
    Metric("bad", Unparseable, "", <<>>) }

Configs ==
  [Basename : {"m"},
   EatMatches : BOOLEAN,
   EatAll : BOOLEAN,
   Metrics : UNION {[1..n -> MetricCatalog] : n \in 0..MaxSpecs}]

InputLines ==
  { <<>>, <<"a", "a">>, <<"a", "1">>, <<"a", "2">>,
    <<"1", "2">>, <<"1", "a">>, <<"2", "1">> }

\* the name a metric is registered under
MetricName(basename, name) == <<basename, "_", name>>

\* the names of the program's own counters
TotalLinesName == <<"stdout2prom_lines_parsed_total">>
BytesReadName == <<"stdout2prom_bytes_read_total">>
MatchedLinesName == <<"stdout2prom_matched_lines_total">>
BadFloatsName == <<"stdout2prom_bad_floats_total">>

(***************************************************************************)
(* State.                                                                  *)
(***************************************************************************)
VARIABLES
  cnf,           \* the configuration, with each metric's Compiled, GroupName, Collector
  pc,            \* "setup", "scan", "metrics", "tardy", "exited", "panic"
  index,         \* the metric the setup loop is at
  registry,      \* names registered with the default registry
  totalLines, bytesRead, matchedLines, badFloats,   \* the program's own counters
  value, labels, \* the package-level variables the extraction results go to
  line,          \* the line being processed
  matchFound,
  mIdx,          \* the metric the per-line loop is at
  stdin,         \* the lines read so far
  stdout,        \* the lines printed so far
  logged,        \* number of "problems finding labels" diagnostics
  scraped        \* names in the last answer of the /metrics handler

vars == <<cnf, pc, index, registry, totalLines, bytesRead, matchedLines,
          badFloats, value, labels, line, matchFound, mIdx, stdin, stdout,
          logged, scraped>>

Init ==
  /\ cnf \in Configs
  /\ pc = "setup"
  /\ index = 1
  /\ registry = {}
  /\ totalLines = 0 /\ bytesRead = 0 /\ matchedLines = 0 /\ badFloats = 0
  /\ value = 0
  /\ labels = NilLabels
  /\ line = <<>>
  /\ matchFound = FALSE
  /\ mIdx = 1
  /\ stdin = <<>>
  /\ stdout = <<>>
  /\ logged = 0
  /\ scraped = {}

(***************************************************************************)
(* Startup: one turn of the loop over cnf.Metrics.  MustCompile panics on  *)
(* a pattern that does not parse, MustRegister on a name already taken.    *)
(***************************************************************************)
\* regexp.MustCompile panics on a pattern that does not parse
MustCompilePanics(regex) == ~regex.valid

\* a registry that takes a name twice
MustRegisterPanics_Never(reg, name) == FALSE

\* prometheus.MustRegister panics on a name the registry already holds
MustRegisterPanics(reg, name) == name \in reg

SetupMetric ==
  /\ pc = "setup"
  /\ index <= Len(cnf.Metrics)
  /\ LET metric == cnf.Metrics[index]
         metricName == MetricName(cnf.Basename, metric.Name)
     IN  IF MustCompilePanics(metric.Regex)
           THEN /\ pc' = "panic"
                /\ UNCHANGED <<cnf, index, registry>>
         ELSE IF MustRegisterPanics(registry, metricName)
           THEN /\ pc' = "panic"
                /\ cnf' = [cnf EXCEPT !.Metrics[index] =
                             [@ EXCEPT !.Compiled = metric.Regex.elems,
                                       !.GroupName = SubexpNames(metric.Regex.elems),
                                       !.Collector = NewCollector(metric)]]
                /\ UNCHANGED <<index, registry>>
           ELSE /\ cnf' = [cnf EXCEPT !.Metrics[index] =
                             [@ EXCEPT !.Compiled = metric.Regex.elems,
                                       !.GroupName = SubexpNames(metric.Regex.elems),
                                       !.Collector = NewCollector(metric)]]
                /\ registry' = registry \cup {metricName}
                /\ index' = index + 1
                /\ pc' = "setup"
  /\ UNCHANGED <<totalLines, bytesRead, matchedLines, badFloats, value, labels,
                 line, matchFound, mIdx, stdin, stdout, logged, scraped>>

\* the program's own counters it registers, and the start of the handler
SelfRegistered == {TotalLinesName, BytesReadName, MatchedLinesName}

RegisterSelf ==
  /\ pc = "setup"
  /\ index > Len(cnf.Metrics)
  /\ registry' = registry \cup SelfRegistered
  /\ pc' = "scan"
  /\ UNCHANGED <<cnf, index, totalLines, bytesRead, matchedLines, badFloats,
                 value, labels, line, matchFound, mIdx, stdin, stdout, logged,
                 scraped>>

\* a handler that resets a counter it reports
Scrape_Resets ==
  /\ pc \in {"scan", "metrics", "tardy"}
  /\ scraped' = registry
  /\ matchedLines' = 0
  /\ UNCHANGED <<cnf, pc, index, registry, totalLines, bytesRead,
                 badFloats, value, labels, line, matchFound, mIdx, stdin,
                 stdout, logged>>

\* the /metrics handler answers with what the registry holds
Scrape ==
  /\ pc \in {"scan", "metrics", "tardy"}
  /\ scraped' = registry
  /\ UNCHANGED <<cnf, pc, index, registry, totalLines, bytesRead, matchedLines,
                 badFloats, value, labels, line, matchFound, mIdx, stdin,
                 stdout, logged>>

(***************************************************************************)
(* The scanner loop.                                                       *)
(***************************************************************************)
\* the byte count with the line terminator counted in
AddBytes_WithTerminator(n, l) == n + Len(l) + 1

\* bytesRead.Add(float64(len(line))): the line without its terminator
AddBytes(n, l) == n + Len(l)

ReadLine ==
  /\ pc = "scan"
  /\ Len(stdin) < MaxLines
  /\ \E l \in InputLines :
       /\ line' = l
       /\ stdin' = Append(stdin, l)
       /\ totalLines' = totalLines + 1
       /\ bytesRead' = AddBytes(bytesRead, l)
  /\ matchFound' = FALSE
  /\ mIdx' = 1
  /\ pc' = "metrics"
  /\ UNCHANGED <<cnf, index, registry, matchedLines, badFloats, value, labels,
                 stdout, logged, scraped>>

\* scanner.Scan() returns false: main returns, after the -tardy wait when
\* the flag is not 0 (the flag is read here and nowhere else)
TardyValues == {0, 1}

EndOfInput ==
  /\ pc = "scan"
  /\ \E tardy \in TardyValues :
       pc' = IF tardy # 0 THEN "tardy" ELSE "exited"
  /\ UNCHANGED <<cnf, index, registry, totalLines, bytesRead, matchedLines,
                 badFloats, value, labels, line, matchFound, mIdx, stdin,
                 stdout, logged, scraped>>

\* an update taking the value left in the package-level variable
ValueUsed_Stale(metric, gv) == value

\* value and labels after the turn's assignments: the package-level
\* variables are assigned only when the metric declares a value, or labels
ValueUsed(metric, gv) == IF metric.Value # "" THEN gv.value ELSE value
LabelsUsed(metric, gl) == IF Len(metric.Labels) > 0 THEN gl.labels ELSE labels

\* one turn of the loop over cnf.Metrics for the current line
TestMetric ==
  /\ pc = "metrics"
  /\ mIdx <= Len(cnf.Metrics)
  /\ LET metric == cnf.Metrics[mIdx]
         result == FindStringSubmatch(metric.Compiled, line)
         gv     == getValue(metric.Value, metric.GroupName, result)
         gl     == getLabels(metric.Labels, metric.GroupName, result)
         newValue  == ValueUsed(metric, gv)
         newLabels == LabelsUsed(metric, gl)
     IN  IF Len(result) = 0
           THEN /\ mIdx' = mIdx + 1
                /\ UNCHANGED <<cnf, pc, matchedLines, matchFound, badFloats,
                               value, labels, logged>>
         ELSE
           /\ matchedLines' = matchedLines + 1
           /\ matchFound' = TRUE
           /\ IF metric.Value # "" /\ gv.panic
                THEN \* results[-1]
                     /\ pc' = "panic"
                     /\ UNCHANGED <<cnf, mIdx, badFloats, value, labels, logged>>
              ELSE IF metric.Value # "" /\ gv.err
                THEN \* continue
                     /\ value' = gv.value
                     /\ badFloats' = badFloats + 1
                     /\ mIdx' = mIdx + 1
                     /\ UNCHANGED <<cnf, pc, labels, logged>>
              ELSE
                /\ value' = newValue
                /\ labels' = newLabels
                /\ logged' = IF Len(metric.Labels) > 0 /\ gl.err
                               THEN logged + 1 ELSE logged
                /\ badFloats' = badFloats
                /\ IF UpdatePanics(metric, newLabels)
                     THEN /\ pc' = "panic"
                          /\ UNCHANGED <<cnf, mIdx>>
                     ELSE /\ cnf' = [cnf EXCEPT !.Metrics[mIdx].Collector =
                                       Update(metric, newLabels, newValue)]
                          /\ mIdx' = mIdx + 1
                          /\ pc' = pc
  /\ UNCHANGED <<index, registry, totalLines, bytesRead, line, stdin, stdout,
                 scraped>>

\* a wait that never ends
Linger_Forever ==
  /\ pc = "tardy"
  /\ UNCHANGED vars

\* time.Sleep is over: main returns
Linger ==
  /\ pc = "tardy"
  /\ pc' = "exited"
  /\ UNCHANGED <<cnf, index, registry, totalLines, bytesRead, matchedLines,
                 badFloats, value, labels, line, matchFound, mIdx, stdin,
                 stdout, logged, scraped>>

\* Println printing the line twice
Println_Twice(out, l) == Append(Append(out, l), l)

\* fmt.Println(line): one more line on stdout
Println(out, l) == Append(out, l)

\* after the last metric: print the line or eat it
PassThrough ==
  /\ pc = "metrics"
  /\ mIdx > Len(cnf.Metrics)
  /\ stdout' = IF Forwarded(cnf.EatAll, cnf.EatMatches, matchFound)
                 THEN Println(stdout, line) ELSE stdout
  /\ pc' = "scan"
  /\ UNCHANGED <<cnf, index, registry, totalLines, bytesRead, matchedLines,
                 badFloats, value, labels, line, matchFound, mIdx, stdin,
                 logged, scraped>>

Next ==
  \/ SetupMetric
  \/ RegisterSelf
  \/ Scrape
  \/ ReadLine
  \/ EndOfInput
  \/ TestMetric
  \/ PassThrough
  \/ Linger

Spec == Init /\ [][Next]_vars

\* the steps of main's goroutine, the only one that reads and processes lines
Worker ==
  \/ SetupMetric
  \/ RegisterSelf
  \/ ReadLine
  \/ EndOfInput
  \/ TestMetric
  \/ PassThrough
  \/ Linger

\* what main's goroutine reads and writes: everything but the handler's answer
workerVars == <<cnf, pc, index, registry, totalLines, bytesRead, matchedLines,
                badFloats, value, labels, line, matchFound, mIdx, stdin, stdout,
                logged>>

\* main's goroutine is scheduled as long as it has a step to take; stdin is
\* finite, so scanner.Scan() returns, with a line or with false
FairSpec == Spec /\ WF_vars(Worker)

(***************************************************************************)
(* What a line is to a metric, read off the metric's configuration alone.  *)
(***************************************************************************)
PatternMatches(m, l) == m.Regex.valid /\ MatchStarts(m.Regex.elems, l) # {}

\* at least one metric's pattern matches the line
Matched(l) == \E i \in DOMAIN cnf.Metrics : PatternMatches(cnf.Metrics[i], l)

HasGroup(m, name) == \E k \in DOMAIN m.Regex.elems :
                        m.Regex.elems[k].grp /\ m.Regex.elems[k].name = name

\* the text the first match of m's pattern in l gives the group called name
GroupText(m, l, name) ==
  LET es == m.Regex.elems
      s  == Min(MatchStarts(es, l))
      k  == Min({j \in DOMAIN es : es[j].grp /\ es[j].name = name})
  IN  <<l[s + k - 1]>>

\* m declares a value group, the pattern has it, and its text is no number
ValueUnparsed(m, l) ==
  /\ PatternMatches(m, l)
  /\ m.Value # "" /\ HasGroup(m, m.Value)
  /\ ParseFloat(GroupText(m, l, m.Value)).err

\* a declared value or label name that is no group of the pattern
ValueNameMissing(m) == m.Value # "" /\ ~HasGroup(m, m.Value)
LabelNameMissing(m) == \E k \in DOMAIN m.Labels : ~HasGroup(m, m.Labels[k])

\* a line has been read and its per-line loop is not over
LineInProgress == pc = "metrics"

\* the program is past startup and has not panicked
Running == pc \in {"scan", "metrics", "tardy", "exited"}

(***************************************************************************)
(* C1.  Every line taken from stdin is printed iff eatAll is false and not *)
(* (matched and eatMatches), matched being that some metric's pattern      *)
(* matches the line, whatever the earlier lines were and whether or not    *)
(* the extraction of a value or of labels failed for a matching metric: so *)
(* stdout is, once a line is dealt with, exactly the lines of stdin the    *)
(* policy lets through.                                                    *)
(***************************************************************************)
ShouldForward(l) == ~cnf.EatAll /\ ~(Matched(l) /\ cnf.EatMatches)

\* C1: stdout is the lines of stdin the policy lets through
C1_PassThroughPolicy ==
  ~LineInProgress => stdout = SelectSeq(stdin, ShouldForward)

(***************************************************************************)
(* C2.  The matched-lines counter is the number of lines matched by at     *)
(* least one metric: a line adds 1 when one or several metrics match it,   *)
(* 0 otherwise.                                                            *)
(***************************************************************************)
C2_MatchedLinesCountsLines ==
  pc \in {"scan", "tardy", "exited"} =>
    matchedLines = Len(SelectSeq(stdin, Matched))

(***************************************************************************)
(* C3.  When a metric with a declared value group matches the line and the *)
(* group's text is no number, the turn of the loop for that metric adds    *)
(* exactly 1 to the bad-floats counter, leaves the metric's collector (and *)
(* every other) as it was, sets the matched flag and adds to the           *)
(* matched-lines counter, and goes on to the next metric; and when the     *)
(* loop is over such a line is printed or eaten by the policy, as a        *)
(* matched line.                                                           *)
(***************************************************************************)
\* some metric already tested against the current line failed to parse its value
ValueUnparsedInLine ==
  \E i \in DOMAIN cnf.Metrics : i < mIdx /\ ValueUnparsed(cnf.Metrics[i], line)

C3_ParseFailureStep ==
  (TestMetric /\ ValueUnparsed(cnf.Metrics[mIdx], line)) =>
     /\ badFloats' = badFloats + 1
     /\ cnf' = cnf
     /\ matchFound'
     /\ matchedLines' = matchedLines + 1
     /\ mIdx' = mIdx + 1
     /\ pc' = "metrics"
     /\ stdout' = stdout

C3_ParseFailurePassThrough ==
  (PassThrough /\ ValueUnparsedInLine) =>
     /\ matchFound
     /\ stdout' = IF ~cnf.EatAll /\ ~cnf.EatMatches
                    THEN Append(stdout, line) ELSE stdout
     /\ badFloats' = badFloats
     /\ cnf' = cnf

\* C3: a value that does not parse is counted and skipped, nothing more
C3_ParseFailureNonFatal ==
  [][C3_ParseFailureStep /\ C3_ParseFailurePassThrough]_vars

\* (a)(?P<v>.) failed on "aa", the counter after it was still incremented,
\* and the line was printed
C3_Witness ==
  /\ pc = "scan"
  /\ stdin = << <<"a", "a">> >>
  /\ Len(cnf.Metrics) = 2
  /\ cnf.Metrics[1].Name = "g" /\ cnf.Metrics[1].Collector.val = 0
  /\ cnf.Metrics[2].Name = "c" /\ cnf.Metrics[2].Collector.val = 1
  /\ badFloats = 1
  /\ matchedLines = 2
  /\ stdout = << <<"a", "a">> >>

(***************************************************************************)
(* C4.  When a matching metric declares a label name that is no group of   *)
(* its pattern, the turn of the loop for that metric skips the update,     *)
(* emits a diagnostic and does not crash: the loop goes on to the next     *)
(* metric.                                                                 *)
(***************************************************************************)
C4_MissingLabelSkipped ==
  [][(TestMetric /\ PatternMatches(cnf.Metrics[mIdx], line)
                 /\ ~ValueNameMissing(cnf.Metrics[mIdx])
                 /\ ~ValueUnparsed(cnf.Metrics[mIdx], line)
                 /\ LabelNameMissing(cnf.Metrics[mIdx])) =>
        /\ logged' = logged + 1
        /\ cnf' = cnf
        /\ pc' = "metrics"
        /\ mIdx' = mIdx + 1]_vars

(***************************************************************************)
(* C5.  When a matching metric's declared value group name or label group  *)
(* name is no group of its pattern, the outcome is a recoverable           *)
(* extraction error: the collector is not updated, the bad-floats counter  *)
(* is incremented, the loop goes on to the next metric, and the process is *)
(* not aborted.                                                            *)
(***************************************************************************)
C5_MissingNameRecoverable ==
  [][(TestMetric /\ PatternMatches(cnf.Metrics[mIdx], line)
                 /\ (ValueNameMissing(cnf.Metrics[mIdx])
                       \/ LabelNameMissing(cnf.Metrics[mIdx]))) =>
        /\ pc' # "panic"
        /\ cnf' = cnf
        /\ badFloats' = badFloats + 1
        /\ mIdx' = mIdx + 1]_vars

(***************************************************************************)
(* The lines metric i has been through: while the per-line loop is at      *)
(* metric mIdx, or has panicked there, the metrics from mIdx on have not   *)
(* been through the current line.                                          *)
(***************************************************************************)
Processed(i) ==
  IF pc \in {"metrics", "panic"} /\ i >= mIdx THEN Front(stdin) ELSE stdin

\* the label mapping the first match of m's pattern in l gives
LabelsOf(m, l) == [n \in Range(m.Labels) |-> GroupText(m, l, n)]

\* l matches m and gives it a value that parses
ValueParsed(m, l) ==
  /\ PatternMatches(m, l)
  /\ m.Value # "" /\ HasGroup(m, m.Value)
  /\ ~ParseFloat(GroupText(m, l, m.Value)).err
  /\ ~LabelNameMissing(m)

ParsedValue(m, l) == ParseFloat(GroupText(m, l, m.Value)).value

\* the value of the most recent line of ls that gave m a parsed value for
\* the series lbls; 0, the value of a new gauge, when there is none
RECURSIVE LastValue(_, _, _)
LastValue(m, lbls, ls) ==
  IF ls = <<>> THEN 0
  ELSE IF ValueParsed(m, ls[Len(ls)]) /\ LabelsOf(m, ls[Len(ls)]) = lbls
         THEN ParsedValue(m, ls[Len(ls)])
         ELSE LastValue(m, lbls, Front(ls))

SeriesSet(m, ls) ==
  {LabelsOf(m, ls[k]) : k \in {j \in DOMAIN ls : ValueParsed(m, ls[j])}}

(***************************************************************************)
(* C6.  After any sequence of lines each Gauge, and each series of a       *)
(* GaugeVec, holds the value parsed from the most recent line that matched *)
(* its metric with a value that parsed (for a series: with that label      *)
(* mapping), over the lines the metric has been through; a line that does  *)
(* not match or whose value does not parse leaves it as it was, and the    *)
(* same line twice leaves what the line once leaves.                       *)
(***************************************************************************)
GaugeHolds(m, ls) ==
  IF Len(m.Labels) = 0
    THEN m.Collector.val = LastValue(m, NilLabels, ls)
    ELSE /\ DOMAIN m.Collector.series = SeriesSet(m, ls)
         /\ \A lb \in DOMAIN m.Collector.series :
              m.Collector.series[lb] = LastValue(m, lb, ls)

\* C6: every gauge holds the last value parsed for it
C6_GaugeHoldsLastValue ==
  \A i \in DOMAIN cnf.Metrics :
    LET m  == cnf.Metrics[i]
        ls == Processed(i)
    IN  m.Value # "" =>
          /\ GaugeHolds(m, ls)
          /\ (Len(ls) >= 2 /\ ls[Len(ls)] = ls[Len(ls) - 1])
               => GaugeHolds(m, Front(ls))

\* a gauge set to 1 by "a1" and left at 1 by "aa", whose value does not parse
C6_Witness ==
  /\ pc = "scan"
  /\ stdin = << <<"a", "1">>, <<"a", "a">> >>
  /\ \E i \in DOMAIN cnf.Metrics :
       /\ cnf.Metrics[i].Collector.kind = "Gauge"
       /\ cnf.Metrics[i].Collector.val = 1
  /\ badFloats = 1

(***************************************************************************)
(* C7.  A Counter or a CounterVec series is only ever changed by adding    *)
(* exactly 1, once per line its metric matches however often the pattern   *)
(* occurs in the line; it is never set or decreased.  So a Counter is the  *)
(* number of lines its pattern matched, and a CounterVec series the number *)
(* of matching lines whose labels select it, over the lines the metric has *)
(* been through.                                                           *)
(***************************************************************************)
MatchCount(m, ls) == Cardinality({k \in DOMAIN ls : PatternMatches(m, ls[k])})

LabelledLines(m, ls) ==
  {k \in DOMAIN ls : PatternMatches(m, ls[k]) /\ ~LabelNameMissing(m)}

CounterHolds(m, ls) ==
  IF Len(m.Labels) = 0
    THEN m.Collector.val = MatchCount(m, ls)
    ELSE /\ DOMAIN m.Collector.series =
              {LabelsOf(m, ls[k]) : k \in LabelledLines(m, ls)}
         /\ \A lb \in DOMAIN m.Collector.series :
              m.Collector.series[lb] =
                Cardinality({k \in LabelledLines(m, ls) : LabelsOf(m, ls[k]) = lb})

\* c is left alone, or its value or one of its series goes up by 1
OneIncrement(c, d) ==
  \/ d = c
  \/ d = [c EXCEPT !.val = @ + 1]
  \/ \E lb \in DOMAIN d.series :
       /\ d.kind = c.kind /\ d.labelNames = c.labelNames /\ d.val = c.val
       /\ DOMAIN d.series = DOMAIN c.series \cup {lb}
       /\ \A x \in DOMAIN d.series :
            d.series[x] = (IF x \in DOMAIN c.series THEN c.series[x] ELSE 0)
                          + (IF x = lb THEN 1 ELSE 0)

C7_CounterInv ==
  \A i \in DOMAIN cnf.Metrics :
    cnf.Metrics[i].Value = "" => CounterHolds(cnf.Metrics[i], Processed(i))

C7_CounterStep ==
  pc # "setup" =>
    \A i \in DOMAIN cnf.Metrics :
      cnf.Metrics[i].Value = "" =>
        /\ OneIncrement(cnf.Metrics[i].Collector, cnf'.Metrics[i].Collector)
        /\ (cnf'.Metrics[i].Collector # cnf.Metrics[i].Collector) =>
              (TestMetric /\ i = mIdx /\ PatternMatches(cnf.Metrics[i], line))

\* C7: counters count matching lines, one increment at a time
C7_CounterOnlyIncrements == []C7_CounterInv /\ [][C7_CounterStep]_vars

\* "aa" holds the pattern a twice and counted once; "12" holds [12] twice
\* and counted once, for the series of its first match
C7_Witness ==
  /\ pc = "scan"
  /\ stdin = << <<"a", "a">>, <<"1", "2">> >>
  /\ Len(cnf.Metrics) = 2
  /\ cnf.Metrics[1].Collector.kind = "Counter"
  /\ cnf.Metrics[1].Collector.val = 1
  /\ cnf.Metrics[2].Collector.kind = "CounterVec"
  /\ DOMAIN cnf.Metrics[2].Collector.series = {[n \in {"code"} |-> <<"1">>]}
  /\ cnf.Metrics[2].Collector.series[[n \in {"code"} |-> <<"1">>]] = 1

(***************************************************************************)
(* C8.  Every metric is tested against every line, in declared order, with *)
(* no short-circuit after an earlier match or an earlier extraction        *)
(* failure; a line updates once the collector of each metric it matches    *)
(* and leaves the collectors of the others unchanged.  In terms of one     *)
(* turn of the per-line loop: the turn for metric mIdx always hands over   *)
(* to metric mIdx + 1, touches no collector but its own, touches none when *)
(* the pattern does not match, and increments a matching counter.          *)
(***************************************************************************)
C8_EveryMetricEveryLine ==
  [][TestMetric =>
       /\ pc' = "metrics"
       /\ mIdx' = mIdx + 1
       /\ \A i \in DOMAIN cnf.Metrics :
            (i # mIdx \/ ~PatternMatches(cnf.Metrics[i], line))
               => cnf'.Metrics[i] = cnf.Metrics[i]
       /\ (PatternMatches(cnf.Metrics[mIdx], line) /\ cnf.Metrics[mIdx].Value = "")
            => /\ cnf'.Metrics[mIdx].Collector # cnf.Metrics[mIdx].Collector
               /\ OneIncrement(cnf.Metrics[mIdx].Collector,
                               cnf'.Metrics[mIdx].Collector)]_vars

(***************************************************************************)
(* C9.  A metric whose declared value group name or one of whose declared  *)
(* label names is no group name of its compiled pattern is rejected at     *)
(* startup: the per-line loop is never reached with such a metric.         *)
(***************************************************************************)
C9_InconsistentNamesRejected ==
  pc = "metrics" =>
    \A i \in DOMAIN cnf.Metrics :
      ~ValueNameMissing(cnf.Metrics[i]) /\ ~LabelNameMissing(cnf.Metrics[i])

(***************************************************************************)
(* C10.  The four counters of the program itself (lines read, bytes read,  *)
(* matched lines, bad floats) are registered with the registry of the      *)
(* configured metrics before the first line is processed, so that each of  *)
(* them is in every answer to a scrape.                                    *)
(***************************************************************************)
SelfCounters == {TotalLinesName, BytesReadName, MatchedLinesName, BadFloatsName}

\* C10: all four own counters are registered and scraped
C10_SelfCountersRegistered ==
  Running =>
    /\ SelfCounters \subseteq registry
    /\ \A i \in DOMAIN cnf.Metrics :
         MetricName(cnf.Basename, cnf.Metrics[i].Name) \in registry
    /\ scraped # {} => SelfCounters \subseteq scraped

(***************************************************************************)
(* C11.  At every moment stdout is an order-preserving subsequence of the  *)
(* lines read so far: every printed line is an input line, printed once,   *)
(* unchanged, in the order of the input, and nothing else is printed.      *)
(* The only change stdout ever sees is the current line, the last one      *)
(* read, appended by the pass-through step.                                *)
(***************************************************************************)
\* a is b with some elements left out
RECURSIVE IsSubseq(_, _)
IsSubseq(a, b) ==
  IF a = <<>> THEN TRUE
  ELSE IF b = <<>> THEN FALSE
  ELSE IF a[Len(a)] = b[Len(b)] THEN IsSubseq(Front(a), Front(b))
  ELSE IsSubseq(a, Front(b))

\* the lines whose per-line loop is over
LinesDone == IF pc \in {"metrics", "panic"} THEN Front(stdin) ELSE stdin

C11_StdoutInv ==
  /\ IsSubseq(stdout, LinesDone)
  /\ pc = "metrics" => line = stdin[Len(stdin)]

C11_StdoutStep ==
  \/ stdout' = stdout
  \/ /\ PassThrough
     /\ stdout' = Append(stdout, stdin[Len(stdin)])

\* C11: stdout is a subsequence of stdin, grown one current line at a time
C11_OutputIsSubsequence == []C11_StdoutInv /\ [][C11_StdoutStep]_vars

\* the first line eaten, the second, a different one, printed
C11_Witness ==
  /\ pc = "scan"
  /\ Len(stdin) = 2
  /\ stdin[1] # stdin[2]
  /\ stdout = <<stdin[2]>>

(***************************************************************************)
(* C12.  A metric's collector is built once, at startup, as the shape its  *)
(* two booleans (Value # "", len(Labels) > 0) give, and keeps that shape;  *)
(* a vector always has label names; every update is the operation of the   *)
(* shape built: Inc on a Counter, Set on a Gauge, one series incremented   *)
(* on a CounterVec, one series set on a GaugeVec.                          *)
(***************************************************************************)
VecKinds == {"CounterVec", "GaugeVec"}
PlainKinds == {"Counter", "Gauge"}

\* the shape the two booleans stand for
ShapeOf(hasValue, hasLabels) ==
  CASE hasValue /\ hasLabels -> "GaugeVec"
    [] hasValue /\ ~hasLabels -> "Gauge"
    [] ~hasValue /\ hasLabels -> "CounterVec"
    [] OTHER -> "Counter"

C12_ShapeInv ==
  \A i \in DOMAIN cnf.Metrics :
    LET m == cnf.Metrics[i]
        c == m.Collector
    IN  /\ i < index => c.kind # "nil"
        /\ i > index => c.kind = "nil"
        /\ c.kind # "nil" =>
             /\ c.kind = ShapeOf(m.Value # "", Len(m.Labels) > 0)
             /\ c.kind \in VecKinds => Len(c.labelNames) > 0 /\ c.val = 0
             /\ c.kind \in PlainKinds => c.labelNames = <<>> /\ c.series = NoSeries

\* c to d is the operation of c's shape
ShapeOperation(c, d) ==
  /\ d.kind = c.kind /\ d.labelNames = c.labelNames
  /\ c.kind = "Counter" => d.val = c.val + 1
  /\ c.kind \in PlainKinds => d.series = c.series
  /\ c.kind \in VecKinds =>
       /\ d.val = c.val
       /\ \E l \in DOMAIN d.series :
            /\ DOMAIN d.series = DOMAIN c.series \cup {l}
            /\ \A x \in DOMAIN c.series \ {l} : d.series[x] = c.series[x]
            /\ c.kind = "CounterVec" => d.series[l] = SeriesVal(c, l) + 1

C12_ShapeStep ==
  /\ Len(cnf'.Metrics) = Len(cnf.Metrics)
  /\ \A i \in DOMAIN cnf.Metrics :
       LET m == cnf.Metrics[i]
           n == cnf'.Metrics[i]
       IN  /\ n.Value = m.Value /\ n.Labels = m.Labels
           /\ n.Collector # m.Collector =>
                IF m.Collector.kind = "nil"
                  THEN pc = "setup" /\ i = index
                  ELSE /\ pc = "metrics" /\ i = mIdx
                       /\ PatternMatches(m, line)
                       /\ ShapeOperation(m.Collector, n.Collector)
  \* no update panics on its type assertion
  /\ pc = "metrics" /\ mIdx <= Len(cnf.Metrics) =>
       cnf.Metrics[mIdx].Collector.kind = AssertedKind(cnf.Metrics[mIdx])

\* C12: the shape is chosen once from the two booleans and every update agrees with it
C12_ShapeChosenOnce == []C12_ShapeInv /\ [][C12_ShapeStep]_vars

\* a Gauge and a CounterVec, both updated by the same line
C12_Witness ==
  /\ pc = "exited"
  /\ Len(cnf.Metrics) = 2
  /\ cnf.Metrics[1].Collector.kind = "Gauge"
  /\ cnf.Metrics[1].Collector.val # 0
  /\ cnf.Metrics[2].Collector.kind = "CounterVec"
  /\ cnf.Metrics[2].Collector.series # NoSeries

(***************************************************************************)
(* C13.  A configuration with a pattern that does not compile, or with two *)
(* metrics of the same name (hence the same prefixed name), never gets     *)
(* past startup: the setup turn for the offending metric panics, no line   *)
(* is read, counted, matched or printed, and the handler never answers.    *)
(* So a program that is reading lines has a configuration without either.  *)
(***************************************************************************)
BadPattern(i) == ~cnf.Metrics[i].Regex.valid

DuplicateName(i) ==
  \E j \in 1..(i - 1) :
    MetricName(cnf.Basename, cnf.Metrics[j].Name)
      = MetricName(cnf.Basename, cnf.Metrics[i].Name)

ConfigError == \E i \in DOMAIN cnf.Metrics : BadPattern(i) \/ DuplicateName(i)

NothingProcessed ==
  /\ stdin = <<>> /\ stdout = <<>>
  /\ totalLines = 0 /\ bytesRead = 0 /\ matchedLines = 0 /\ badFloats = 0
  /\ scraped = {}
  /\ \A i \in DOMAIN cnf.Metrics :
       cnf.Metrics[i].Collector.val = 0 /\ cnf.Metrics[i].Collector.series = NoSeries

C13_ConfigErrorInv ==
  /\ ConfigError => pc \in {"setup", "panic"} /\ NothingProcessed
  /\ pc = "setup" => NothingProcessed
  /\ pc = "setup" =>
       \A i \in 1..(index - 1) : ~BadPattern(i) /\ ~DuplicateName(i)

C13_ConfigErrorStep ==
  /\ (pc = "setup" /\ index <= Len(cnf.Metrics)
         /\ (BadPattern(index) \/ DuplicateName(index))) => pc' = "panic"
  /\ (pc = "setup" /\ pc' = "panic") => BadPattern(index) \/ DuplicateName(index)
  /\ pc # "setup" => pc' # "setup"

\* C13: an unparseable pattern or a duplicate name aborts at startup, before any line
C13_ConfigErrorsAtStartup == []C13_ConfigErrorInv /\ [][C13_ConfigErrorStep]_vars

\* the second metric has the first one's name: MustRegister has panicked
C13_Witness ==
  /\ pc = "panic"
  /\ index = 2
  /\ Len(cnf.Metrics) = 2
  /\ ~BadPattern(1) /\ ~BadPattern(2)
  /\ DuplicateName(2)
  /\ NothingProcessed

(***************************************************************************)
(* C14.  What the program leaves behind does not depend on the order the   *)
(* metrics are declared in.  Stated on one run: when the process is over,  *)
(* every collector, every own counter and stdout are what the set of       *)
(* metrics and the lines read determine, every metric having seen every    *)
(* line read: a gauge holds its last parsed value, a counter its number of *)
(* matching lines, the matched-lines counter one per matching metric and   *)
(* line, the bad-floats counter one per value that did not parse, stdout   *)
(* the lines the policy lets through among those dealt with.               *)
(***************************************************************************)
\* the metrics whose pattern matches l, and those whose value does not parse
MatchingMetrics(l) ==
  {i \in DOMAIN cnf.Metrics : PatternMatches(cnf.Metrics[i], l)}
UnparsedMetrics(l) ==
  {i \in DOMAIN cnf.Metrics : ValueUnparsed(cnf.Metrics[i], l)}

RECURSIVE TotalMatches(_)
TotalMatches(ls) ==
  IF ls = <<>> THEN 0
  ELSE TotalMatches(Front(ls)) + Cardinality(MatchingMetrics(ls[Len(ls)]))

RECURSIVE TotalUnparsed(_)
TotalUnparsed(ls) ==
  IF ls = <<>> THEN 0
  ELSE TotalUnparsed(Front(ls)) + Cardinality(UnparsedMetrics(ls[Len(ls)]))

RECURSIVE TotalBytes(_)
TotalBytes(ls) ==
  IF ls = <<>> THEN 0 ELSE TotalBytes(Front(ls)) + Len(ls[Len(ls)])

\* the process is over, by main returning or by a panic
Over == pc \in {"exited", "panic"}

\* C14: the final collectors, own counters and output are those of the set of metrics
C14_OrderIndependent ==
  Over =>
    /\ \A i \in DOMAIN cnf.Metrics :
         IF cnf.Metrics[i].Value = ""
           THEN CounterHolds(cnf.Metrics[i], stdin)
           ELSE GaugeHolds(cnf.Metrics[i], stdin)
    /\ totalLines = Len(stdin)
    /\ bytesRead = TotalBytes(stdin)
    /\ matchedLines = TotalMatches(stdin)
    /\ badFloats = TotalUnparsed(stdin)
    /\ stdout = SelectSeq(LinesDone, ShouldForward)

(***************************************************************************)
(* C15.  The program's own counters only go up.  Whatever happens to a     *)
(* line (matched or not, value parsed or not, printed or eaten, or the     *)
(* process panicking on it), the lines-read counter is the number of lines *)
(* read and the bytes-read counter the sum of their lengths, terminators   *)
(* not counted.                                                            *)
(***************************************************************************)
C15_CountersInv ==
  /\ totalLines = Len(stdin)
  /\ bytesRead = TotalBytes(stdin)

C15_CountersStep ==
  /\ totalLines' >= totalLines
  /\ bytesRead' >= bytesRead
  /\ matchedLines' >= matchedLines
  /\ badFloats' >= badFloats
  /\ totalLines' # totalLines =>
       /\ totalLines' = totalLines + 1
       /\ bytesRead' = bytesRead + Len(line')
       /\ stdin' = Append(stdin, line')

\* C15: own counters never decrease; lines read and bytes read are exact
C15_SelfCountersExact == []C15_CountersInv /\ [][C15_CountersStep]_vars

\* "aa" matched, its value did not parse, it was eaten; the empty line was printed
C15_Witness ==
  /\ pc = "scan"
  /\ stdin = << <<"a", "a">>, <<>> >>
  /\ stdout = << <<>> >>
  /\ badFloats = 1
  /\ matchedLines = 1
  /\ totalLines = 2
  /\ bytesRead = 2

(***************************************************************************)
(* C16.  One goroutine does all the work on lines, one line at a time: a   *)
(* line is read only when the line before it has been through every metric *)
(* and has been printed or eaten.  A step of the /metrics handler changes  *)
(* nothing but its own answer, wherever it falls between the worker's      *)
(* steps; so the collectors and stdout are, at every moment, what the      *)
(* configuration and the lines gone through determine.                     *)
(***************************************************************************)
C16_WorkerInv ==
  /\ pc = "metrics" => /\ stdin # <<>>
                       /\ line = stdin[Len(stdin)]
                       /\ mIdx \in 1..(Len(cnf.Metrics) + 1)
  /\ stdout = SelectSeq(LinesDone, ShouldForward)
  /\ \A i \in DOMAIN cnf.Metrics :
       IF cnf.Metrics[i].Value = ""
         THEN CounterHolds(cnf.Metrics[i], Processed(i))
         ELSE GaugeHolds(cnf.Metrics[i], Processed(i))

C16_WorkerStep ==
  /\ \/ Worker /\ scraped' = scraped
     \/ UNCHANGED workerVars
  /\ stdin' # stdin =>
       /\ pc = "scan" /\ pc' = "metrics" /\ mIdx' = 1
       /\ stdin # <<>> => mIdx > Len(cnf.Metrics)
       /\ Len(stdin') = Len(stdin) + 1
  /\ (pc = "metrics" /\ pc' = "scan") =>
       /\ mIdx > Len(cnf.Metrics)
       /\ stdout' = IF ShouldForward(line) THEN Append(stdout, line) ELSE stdout

\* C16: one worker, one line at a time; the handler only reads
C16_SingleWorker == []C16_WorkerInv /\ [][C16_WorkerStep]_vars

\* the handler has answered, the worker is in the middle of its second line
C16_Witness ==
  /\ pc = "metrics"
  /\ Len(stdin) = 2
  /\ mIdx = 2
  /\ Len(cnf.Metrics) = 2
  /\ scraped = registry
  /\ cnf.Metrics[1].Collector.kind = "Counter"
  /\ cnf.Metrics[1].Collector.val = 2
  /\ stdout = <<stdin[1]>>

(***************************************************************************)
(* C17.  With a finite input the process comes to an end.  A line is read  *)
(* only when the one before has been printed or eaten; when the input ends *)
(* the scanner loop is left with nothing changed, and main returns, at     *)
(* once or after the -tardy wait; the wait changes no counter, no          *)
(* collector and no output; and a process that is over stays as it is.     *)
(***************************************************************************)
C17_EndStep ==
  /\ stdin' # stdin => pc = "scan" /\ Len(stdout) <= Len(stdin)
  /\ (pc = "scan" /\ pc' \in {"tardy", "exited"}) =>
       /\ mIdx > Len(cnf.Metrics) \/ stdin = <<>>
       /\ UNCHANGED <<cnf, totalLines, bytesRead, matchedLines, badFloats,
                      stdin, stdout, registry>>
  /\ pc = "tardy" =>
       /\ pc' \in {"tardy", "exited"}
       /\ UNCHANGED <<cnf, totalLines, bytesRead, matchedLines, badFloats,
                      stdin, stdout, registry>>
  /\ pc' = "exited" => pc \in {"scan", "tardy", "exited"}
  /\ Over => UNCHANGED vars

\* C17: the process ends, the input's end leads to exit, the wait changes nothing
C17_Terminates ==
  /\ <>Over
  /\ (pc = "tardy") ~> (pc = "exited")
  /\ [][C17_EndStep]_vars

\* main has returned after the wait, two lines read and one of them printed
C17_Witness ==
  /\ pc = "exited"
  /\ Len(stdin) = 2
  /\ Len(stdout) = 1
  /\ scraped = registry
  /\ matchedLines = 2

(***************************************************************************)
(* C18.  value and labels are package-level variables, assigned in the     *)
(* turn of a metric that declares a value, or labels, and read by the      *)
(* update.  Every update that is applied uses the value parsed from the    *)
(* current line by the current metric's value group and the label mapping  *)
(* of the current line's match of the current metric's pattern; the series *)
(* it changes is that mapping's and no other.  What an earlier line or     *)
(* another metric left in the two variables is never used.                 *)
(***************************************************************************)
C18_FreshStep ==
  (/\ pc = "metrics" /\ mIdx <= Len(cnf.Metrics)
   /\ cnf'.Metrics[mIdx].Collector # cnf.Metrics[mIdx].Collector) =>
    LET m == cnf.Metrics[mIdx]
        c == m.Collector
        d == cnf'.Metrics[mIdx].Collector
    IN  /\ PatternMatches(m, line)
        /\ ~ValueNameMissing(m) /\ ~LabelNameMissing(m)
        /\ m.Value # "" =>
             /\ ValueParsed(m, line)
             /\ value' = ParsedValue(m, line)
             /\ IF Len(m.Labels) = 0
                  THEN d.val = ParsedValue(m, line)
                  ELSE d.series[LabelsOf(m, line)] = ParsedValue(m, line)
        /\ Len(m.Labels) > 0 =>
             /\ labels' = LabelsOf(m, line)
             /\ DOMAIN d.series = DOMAIN c.series \cup {LabelsOf(m, line)}
             /\ \A x \in DOMAIN c.series \ {LabelsOf(m, line)} :
                  d.series[x] = c.series[x]
             /\ m.Value = "" =>
                  d.series[LabelsOf(m, line)] = SeriesVal(c, LabelsOf(m, line)) + 1

\* C18: no update uses a value or labels left over in the package-level variables
C18_NoStaleExtraction == [][C18_FreshStep]_vars

\* "12" then "21": two series of a GaugeVec and of a CounterVec, each from its own line
C18_Witness ==
  LET c1 == [n \in {"code"} |-> <<"1">>]
      c2 == [n \in {"code"} |-> <<"2">>]
  IN  /\ pc = "scan"
      /\ stdin = << <<"1", "2">>, <<"2", "1">> >>
      /\ Len(cnf.Metrics) = 2
      /\ cnf.Metrics[1].Collector.kind = "GaugeVec"
      /\ cnf.Metrics[1].Collector.series = [x \in {c1, c2} |-> IF x = c1 THEN 2 ELSE 1]
      /\ cnf.Metrics[2].Collector.kind = "CounterVec"
      /\ cnf.Metrics[2].Collector.series = [x \in {c1, c2} |-> 1]
      /\ value = 1
      /\ labels = c2

====
